---- MODULE Spec2Model ----
(***************************************************************************)
(* Model of the node-local control plane of gotomicro/ects:                *)
(*   - WatchPipelines, the bootstrap-then-stream synchronizer that turns   *)
(*     store changes into scheduler events (src/unnamed/part_000),         *)
(*   - the controller handlers PostKiller and DeleteBy and the store       *)
(*     writes of the other handlers (src/controllers/pipeline/main.go),    *)
(*   - the coordination store (etcd) as they use it: revisions, change     *)
(*     history, prefix reads, revision-bounded watches and leases.         *)
(* Spec follows the synchronizer over a pipeline namespace with well- and  *)
(* ill-formed values, SpecRev over a store whose revisions are shared with *)
(* kill markers, SpecKill follows the kill-request emitter and the leases. *)
(* SpecWatchKiller follows WatchKiller over the whole keyspace,            *)
(* SpecWatchers both watchers over one pipeline and its kill marker,       *)
(* SpecCrud the handlers Post, PutBy, PostNodes and DeleteBy with the      *)
(* relational rows they write, SpecSteps the reordering of PutSteps.       *)
(***************************************************************************)
EXTENDS Integers, Sequences, FiniteSets, TLC

\* ---------------------------------------------------------------- bounds
\* Largest number of changes the store commits in a behaviour.
MaxChanges == 3
\* Largest value of the clock.
MaxTime == 3
\* Largest number of snapshot reads of WatchKiller that fail.
MaxFails == 2
\* Largest number of task relations of a pipeline.
MaxTasks == 3

\* ---------------------------------------------------------------- inputs
\* The node id WatchPipelines is started with.
Local == "n1"
\* Pipeline identifiers, in the key order of the store.
PipelineIdSeq == <<"p1", "p2">>
PipelineIds == {PipelineIdSeq[i] : i \in 1..Len(PipelineIdSeq)}
\* Nodes lists a request body can carry.
NodeLists == {<<>>, <<"n2", "n1">>, <<"n1", "n1">>}

\* ------------------------------------------------------- program constants
PUT == 1
DEL == 2
KILL == 3
\* TTL of the lease PostKiller grants.
KillTTLSlow == 2 + 1
KillTTL == 2

\* ------------------------------------------------------------ store values
\* A stored value is the text of a key.  kind "json" is the output of
\* json.Marshal on a models.Pipeline; kind "type" is JSON whose id field has
\* the wrong type but whose nodes field is a valid list; kind "syntax" is text
\* that is not JSON at all; kind "none" stands for the absence of a value.
PipelineKey(id) == [ns |-> "pipeline", id |-> id]
KillerKey(id) == [ns |-> "killer", id |-> id]
\* A key outside both namespaces, as any other client of the store may write.
OtherKey == [ns |-> "other", id |-> "x"]
Keys == {PipelineKey(id) : id \in PipelineIds} \cup {KillerKey(id) : id \in PipelineIds}
            \cup {OtherKey}

NoVal == [kind |-> "none", id |-> "", nodes |-> <<>>]
Marshal(id, nodes) == [kind |-> "json", id |-> id, nodes |-> nodes]
BadSyntax == [kind |-> "syntax", id |-> "", nodes |-> <<>>]
BadType == [kind |-> "type", id |-> "", nodes |-> <<Local>>]
MalformedValues == {BadSyntax, BadType}
\* The literal text "pipeline" PostKiller writes: not a JSON document.
KillerValue == BadSyntax

\* json.Unmarshal into a zero models.Pipeline: a syntax error leaves the
\* pipeline zero, a type error skips the offending field and fills the rest.
Unmarshal(v) ==
    [err |-> v.kind # "json",
     pipeline |-> [Id |-> IF v.kind = "json" THEN v.id ELSE "",
                   Nodes |-> IF v.kind \in {"json", "type"} THEN v.nodes ELSE <<>>]]

NoLease == [granted |-> 0, ttl |-> 0]
NoResp == [op |-> "", status |-> ""]
NoParams == [Origin |-> 0, Current |-> 0]

VARIABLES
    kv,          \* store: key -> value (NoVal when absent)
    history,     \* store: the committed changes; history[i] has revision i+1
    lease,       \* store: the lease the killer key of an id is attached to
    now,         \* the clock
    resp,        \* the response of the last controller handler
    faults,      \* the store / database calls that failed in that handler
    pc,          \* WatchPipelines: position
    rangeResp,   \* WatchPipelines: the snapshot read (Header.Revision, Kvs)
    curRevision, \* WatchPipelines: curRevision
    watchPos,    \* the next revision the watch channel delivers
    queue,       \* scheduler.Instance: the events pushed so far
    pushed,      \* for each pushed event: phase, revision, key, unmarshal error
    delivered,   \* revisions of the changes the streaming loop has processed
    getAttempts, \* number of snapshot reads WatchPipelines has issued
    kpc,         \* WatchKiller: position
    kRangeRev,   \* WatchKiller: Header.Revision of the read that succeeded
    kCurRevision, \* WatchKiller: curRevision
    kWatchPos,   \* the next revision WatchKiller's watch channel delivers
    kLog,        \* WatchKiller: the changes it has processed, as it logged them
    kFails,      \* WatchKiller: number of snapshot reads that failed
    registry,    \* the local registry of pipelines WatchKiller is to maintain
    dbRows,      \* database: the ids that have a row in the pipelines table
    dbPivot,     \* database: the node ids bound to a pipeline (pivot rows)
    lastId,      \* the pipeline the last Post/PutBy/PostNodes/DeleteBy was about
    relations,   \* PutSteps: the relation list of the handler, in list order
    dbSteps,     \* database: the persisted Step of each task relation
    params,      \* PutSteps: the request (Origin, Current)
    stepsResp    \* PutSteps: the response

killerVars == <<kpc, kRangeRev, kCurRevision, kWatchPos, kLog, kFails, registry>>
crudVars == <<dbRows, dbPivot, lastId>>
stepsVars == <<relations, dbSteps, params, stepsResp>>

vars == <<kv, history, lease, now, resp, faults, pc, rangeResp, curRevision,
          watchPos, queue, pushed, delivered, getAttempts, killerVars,
          crudVars, stepsVars>>

storeVars == <<kv, history, lease>>
syncVars == <<pc, rangeResp, curRevision, watchPos, queue, pushed, delivered, getAttempts>>

\* ------------------------------------------------------------------ store
\* Header.Revision: the store starts at revision 1, each change adds one.
Revision == Len(history) + 1
EventAt(r) == history[r - 1]

LeasedIds == {id \in PipelineIds : lease[id].ttl > 0}
\* The store commits at most MaxChanges changes.
Room == Len(history) < MaxChanges

\* clientv3 Put: one revision, a PUT change carrying the previous value.
StorePut(key, value, l) ==
    /\ kv' = [kv EXCEPT ![key] = value]
    /\ history' = Append(history, [type |-> "PUT", key |-> key, value |-> value, prev |-> kv[key]])
    /\ lease' = IF key.ns = "killer" THEN [lease EXCEPT ![key.id] = l] ELSE lease

\* clientv3 Delete: a DELETE change when the key exists, nothing otherwise.
StoreDelete(key) ==
    IF kv[key] = NoVal
    THEN UNCHANGED storeVars
    ELSE /\ kv' = [kv EXCEPT ![key] = NoVal]
         /\ history' = Append(history, [type |-> "DELETE", key |-> key, value |-> NoVal, prev |-> kv[key]])
         /\ lease' = IF key.ns = "killer" THEN [lease EXCEPT ![key.id] = NoLease] ELSE lease

Respond(op, status, failed) ==
    /\ resp' = [op |-> op, status |-> status]
    /\ faults' = failed

InitControl ==
    /\ kv = [k \in Keys |-> NoVal]
    /\ history = <<>>
    /\ lease = [id \in PipelineIds |-> NoLease]
    /\ now = 0
    /\ resp = NoResp
    /\ faults = {}
    /\ pc = "init"
    /\ rangeResp = [Revision |-> 0, Kvs |-> <<>>]
    /\ curRevision = 0
    /\ watchPos = 0
    /\ queue = <<>>
    /\ pushed = <<>>
    /\ delivered = <<>>
    /\ getAttempts = 0
    /\ kpc = "init"
    /\ kRangeRev = 0
    /\ kCurRevision = 0
    /\ kWatchPos = 0
    /\ kLog = <<>>
    /\ kFails = 0
    /\ registry = {}
    /\ dbRows = {}
    /\ dbPivot = [id \in PipelineIds |-> <<>>]
    /\ lastId = ""

\* The control plane starts on a pipeline that has no task relations.
Init ==
    /\ InitControl
    /\ relations = <<>>
    /\ dbSteps = <<>>
    /\ params = NoParams
    /\ stepsResp = ""

\* ----------------------------------------------------- writers of the store
\* The write of a pipeline the controller issues after it has stored, updated
\* or re-bound one (Post, PutBy, PostNodes): Put(key, json.Marshal(pipeline)).
ClientPut(id, nodes) ==
    /\ Room
    /\ StorePut(PipelineKey(id), Marshal(id, nodes), NoLease)
    /\ UNCHANGED <<killerVars, crudVars, stepsVars>>
    /\ UNCHANGED <<now, resp, faults, syncVars>>

\* The delete DeleteBy issues on the pipeline's key.
ClientDelete(id) ==
    /\ Room
    /\ kv[PipelineKey(id)] # NoVal
    /\ StoreDelete(PipelineKey(id))
    /\ UNCHANGED <<killerVars, crudVars, stepsVars>>
    /\ UNCHANGED <<now, resp, faults, syncVars>>

\* ------------------------------------------------------------- controller
\* Controller.Post: store the row under a fresh id, write the store key (a
\* failed write is only logged), create the log entry.
Post(id, nodes) ==
    /\ Room
    /\ id \notin dbRows
    /\ kv[PipelineKey(id)] = NoVal
    /\ lastId' = id
    /\ \E storeOk, putOk, logOk \in BOOLEAN :
        IF ~storeOk
        THEN /\ Respond("Post", "error", {"db.Store"})
             /\ UNCHANGED <<storeVars, dbRows>>
        ELSE /\ dbRows' = dbRows \cup {id}
             /\ IF putOk
                THEN StorePut(PipelineKey(id), Marshal(id, nodes), NoLease)
                ELSE UNCHANGED storeVars
             /\ Respond("Post", IF logOk THEN "success" ELSE "error",
                        (IF putOk THEN {} ELSE {"etcd.Put"})
                            \cup (IF logOk THEN {} ELSE {"db.CreateLog"}))
    /\ UNCHANGED <<dbPivot, now, syncVars, killerVars, stepsVars>>

\* Controller.PutBy: update the row of id (no row: nothing is updated and no
\* error), then write the store key with the pipeline of the request body.
PutBy(id, nodes) ==
    /\ Room
    /\ lastId' = id
    /\ \E updateOk, putOk \in BOOLEAN :
        IF ~updateOk
        THEN /\ Respond("PutBy", "error", {"db.Update"})
             /\ UNCHANGED storeVars
        ELSE IF putOk
             THEN /\ StorePut(PipelineKey(id), Marshal(id, nodes), NoLease)
                  /\ Respond("PutBy", "success", {})
             ELSE /\ UNCHANGED storeVars
                  /\ Respond("PutBy", "error", {"etcd.Put"})
    /\ UNCHANGED <<dbRows, dbPivot, now, syncVars, killerVars, stepsVars>>

\* Controller.PostNodes: delete the pivot rows of the pipeline, insert the new
\* ones, load the row (whether it exists is not looked at), write the store
\* key with Nodes = NodesId (a failed write is only logged).
PostNodes(id, nodes) ==
    /\ Room
    /\ lastId' = id
    /\ \E deleteOk, insertOk, getOk, putOk \in BOOLEAN :
        IF ~deleteOk
        THEN /\ Respond("PostNodes", "error", {"db.Delete"})
             /\ UNCHANGED <<storeVars, dbPivot>>
        ELSE IF ~insertOk
        THEN /\ dbPivot' = [dbPivot EXCEPT ![id] = <<>>]
             /\ Respond("PostNodes", "error", {"db.Insert"})
             /\ UNCHANGED storeVars
        ELSE IF ~getOk
        THEN /\ dbPivot' = [dbPivot EXCEPT ![id] = nodes]
             /\ Respond("PostNodes", "error", {"db.Get"})
             /\ UNCHANGED storeVars
        ELSE /\ dbPivot' = [dbPivot EXCEPT ![id] = nodes]
             /\ IF putOk
                THEN StorePut(PipelineKey(id), Marshal(id, nodes), NoLease)
                ELSE UNCHANGED storeVars
             /\ Respond("PostNodes", "success", IF putOk THEN {} ELSE {"etcd.Put"})
    /\ UNCHANGED <<dbRows, now, syncVars, killerVars, stepsVars>>

\* Controller.DeleteBy: delete the store key of the pipeline, then the row.
DeleteBy(id) ==
    /\ Room
    /\ lastId' = id
    /\ \E deleteOk, destroyOk \in BOOLEAN :
        IF ~deleteOk
        THEN /\ Respond("DeleteBy", "error", {"etcd.Delete"})
             /\ UNCHANGED <<storeVars, dbRows>>
        ELSE /\ StoreDelete(PipelineKey(id))
             /\ dbRows' = IF destroyOk THEN dbRows \ {id} ELSE dbRows
             /\ Respond("DeleteBy", IF destroyOk THEN "success" ELSE "error",
                        IF destroyOk THEN {} ELSE {"db.Destroy"})
    /\ UNCHANGED <<dbPivot, now, syncVars, killerVars, stepsVars>>

\* Controller.PostKiller: grant a lease and write the marker key under it.
\* A failed Grant returns a nil response, whose ID is then read: the handler
\* panics before the write.  A failed write is only logged.
PostKiller(id) ==
    /\ Room
    /\ \E grantOk, putOk \in BOOLEAN :
        IF ~grantOk
        THEN /\ Respond("PostKiller", "panic", {"etcd.Grant"})
             /\ UNCHANGED storeVars
        ELSE IF putOk
             THEN /\ StorePut(KillerKey(id), KillerValue, [granted |-> now, ttl |-> KillTTL])
                  /\ Respond("PostKiller", "success", {})
             ELSE /\ UNCHANGED storeVars
                  /\ Respond("PostKiller", "success", {"etcd.Put"})
    /\ UNCHANGED <<killerVars, crudVars, stepsVars>>
    /\ UNCHANGED <<now, syncVars>>

\* ------------------------------------------------------------ environment
\* Another client of the store writes a value under the pipeline namespace
\* that is not the serialized form of a Pipeline.
ExternalPut(id, value) ==
    /\ Room
    /\ StorePut(PipelineKey(id), value, NoLease)
    /\ UNCHANGED <<killerVars, crudVars, stepsVars>>
    /\ UNCHANGED <<now, resp, faults, syncVars>>

\* The store revokes a lease whose TTL has elapsed and deletes its key.
LeaseExpire(id) ==
    /\ lease[id].ttl > 0
    /\ now >= lease[id].granted + lease[id].ttl
    /\ Room
    /\ StoreDelete(KillerKey(id))
    /\ UNCHANGED <<killerVars, crudVars, stepsVars>>
    /\ UNCHANGED <<now, resp, faults, syncVars>>

\* One time unit passes; an elapsed lease is revoked before time moves on.
Tick ==
    /\ now < MaxTime
    /\ \A id \in LeasedIds : now < lease[id].granted + lease[id].ttl
    /\ now' = now + 1
    /\ UNCHANGED <<killerVars, crudVars, stepsVars>>
    /\ UNCHANGED <<storeVars, resp, faults, syncVars>>

\* --------------------------------------------------------- WatchPipelines
\* What one PushEvent call adds: the event, and where it came from.
Push(type, pipeline, phase, rev, key, err) ==
    [ev |-> [Type |-> type, Pipeline |-> pipeline],
     tag |-> [phase |-> phase, rev |-> rev, key |-> key, err |-> err]]

\* clientv3 Get with WithPrefix on the pipeline namespace: the present keys in
\* key order, each with its value.
RECURSIVE RangeKvs(_)
RangeKvs(i) ==
    IF i > Len(PipelineIdSeq) THEN <<>>
    ELSE LET key == PipelineKey(PipelineIdSeq[i])
         IN (IF kv[key] = NoVal THEN <<>> ELSE <<[Key |-> key, Value |-> kv[key]]>>)
            \o RangeKvs(i + 1)

\* The revision the watch is opened at, from the snapshot's header revision.
WatchFromHeader(headerRevision) == headerRevision
WatchRevision(headerRevision) == headerRevision + 1

\* Body of the snapshot loop for one entry: unmarshal (an error is logged),
\* then push a PUT event.
SnapshotEntryFiltered(local, obj, rev) ==
    LET u == Unmarshal(obj.Value)
    IN IF \E i \in 1..Len(u.pipeline.Nodes) : u.pipeline.Nodes[i] = local
       THEN <<Push(PUT, u.pipeline, "snapshot", rev, obj.Key, u.err)>>
       ELSE <<>>
SnapshotEntry(local, obj, rev) ==
    LET u == Unmarshal(obj.Value)
    IN <<Push(PUT, u.pipeline, "snapshot", rev, obj.Key, u.err)>>

RECURSIVE SnapshotLoop(_, _, _, _)
SnapshotLoop(local, kvs, rev, i) ==
    IF i > Len(kvs) THEN <<>>
    ELSE SnapshotEntry(local, kvs[i], rev) \o SnapshotLoop(local, kvs, rev, i + 1)

\* case mvccpb.PUT: unmarshal the new value, push one PUT event for every
\* element of Nodes that equals local (the loop has no break).
OnPut(local, event, rev) ==
    LET u == Unmarshal(event.value)
        hits == SelectSeq(u.pipeline.Nodes, LAMBDA node : node = local)
    IN [i \in 1..Len(hits) |-> Push(PUT, u.pipeline, "stream", rev, event.key, u.err)]

\* case mvccpb.DELETE: unmarshal the previous value, push a DEL event.
OnDeleteFiltered(local, event, rev) ==
    LET u == Unmarshal(event.prev)
    IN IF \E i \in 1..Len(u.pipeline.Nodes) : u.pipeline.Nodes[i] = local
       THEN <<Push(DEL, u.pipeline, "stream", rev, event.key, u.err)>>
       ELSE <<>>
OnDelete(local, event, rev) ==
    LET u == Unmarshal(event.prev)
    IN <<Push(DEL, u.pipeline, "stream", rev, event.key, u.err)>>

OnEvent(local, rev) ==
    IF EventAt(rev).type = "PUT"
    THEN OnPut(local, EventAt(rev), rev)
    ELSE OnDelete(local, EventAt(rev), rev)

\* The revisions in lo..hi whose change is under the pipeline prefix, ascending:
\* what a watch with WithPrefix on the pipeline namespace delivers.
IsPipelineChange(r) ==
    /\ r >= 2
    /\ r <= Revision
    /\ EventAt(r).key.ns = "pipeline"

RECURSIVE PipelineRevs(_, _)
PipelineRevs(lo, hi) ==
    IF lo > hi THEN <<>>
    ELSE (IF IsPipelineChange(lo) THEN <<lo>> ELSE <<>>) \o PipelineRevs(lo + 1, hi)

\* for _, event := range watchResp.Events: the pushes of one batch.
RECURSIVE BatchLoopReversed(_, _, _)
BatchLoopReversed(local, revs, i) ==
    IF i > Len(revs) THEN <<>>
    ELSE BatchLoopReversed(local, revs, i + 1) \o OnEvent(local, revs[i])
RECURSIVE BatchLoop(_, _, _)
BatchLoop(local, revs, i) ==
    IF i > Len(revs) THEN <<>>
    ELSE OnEvent(local, revs[i]) \o BatchLoop(local, revs, i + 1)

Evs(pushes) == [i \in 1..Len(pushes) |-> pushes[i].ev]
Tags(pushes) == [i \in 1..Len(pushes) |-> pushes[i].tag]

\* The snapshot read fails: panic(err).
WatchPipelinesGetRetry ==
    /\ pc = "init"
    /\ getAttempts < 2
    /\ getAttempts' = getAttempts + 1
    /\ UNCHANGED <<killerVars, crudVars, stepsVars>>
    /\ UNCHANGED <<storeVars, now, resp, faults, pc, rangeResp, curRevision,
                   watchPos, queue, pushed, delivered>>
WatchPipelinesGetFail ==
    /\ pc = "init"
    /\ pc' = "panicked"
    /\ getAttempts' = getAttempts + 1
    /\ UNCHANGED <<killerVars, crudVars, stepsVars>>
    /\ UNCHANGED <<storeVars, now, resp, faults, rangeResp, curRevision,
                   watchPos, queue, pushed, delivered>>

\* The snapshot read succeeds: curRevision = rangeResp.Header.Revision + 1.
WatchPipelinesGet ==
    /\ pc = "init"
    /\ pc' = "snapshot"
    /\ getAttempts' = getAttempts + 1
    /\ rangeResp' = [Revision |-> Revision, Kvs |-> RangeKvs(1)]
    /\ curRevision' = WatchRevision(Revision)
    /\ UNCHANGED <<killerVars, crudVars, stepsVars>>
    /\ UNCHANGED <<storeVars, now, resp, faults, watchPos, queue, pushed, delivered>>

\* The snapshot loop, then the watch is opened at curRevision.
WatchPipelinesSnapshot ==
    /\ pc = "snapshot"
    /\ LET pushes == SnapshotLoop(Local, rangeResp.Kvs, rangeResp.Revision, 1)
       IN /\ queue' = queue \o Evs(pushes)
          /\ pushed' = pushed \o Tags(pushes)
    /\ watchPos' = curRevision
    /\ pc' = "watching"
    /\ UNCHANGED <<killerVars, crudVars, stepsVars>>
    /\ UNCHANGED <<storeVars, now, resp, faults, rangeResp, curRevision, delivered, getAttempts>>

\* for watchResp := range watchChan: the loop takes responses while the
\* channel is open; nothing reopens a closed channel.
ChannelReopened == pc \in {"watching", "closed"}
ChannelOpen == pc = "watching"

\* One watch response: the pipeline changes from watchPos up to some committed
\* revision, processed in order; then the loop sleeps and takes the next one.
WatchPipelinesBatch ==
    /\ ChannelOpen
    /\ \E last \in watchPos..Revision :
        /\ IsPipelineChange(last)
        /\ LET revs == PipelineRevs(watchPos, last)
               pushes == BatchLoop(Local, revs, 1)
           IN /\ queue' = queue \o Evs(pushes)
              /\ pushed' = pushed \o Tags(pushes)
              /\ delivered' = delivered \o revs
        /\ watchPos' = last + 1
    /\ UNCHANGED <<killerVars, crudVars, stepsVars>>
    /\ UNCHANGED <<storeVars, now, resp, faults, pc, rangeResp, curRevision, getAttempts>>

\* The watch channel is closed: the range loop ends and WatchPipelines returns.
WatchPipelinesClose ==
    /\ pc = "watching"
    /\ pc' = "closed"
    /\ UNCHANGED <<killerVars, crudVars, stepsVars>>
    /\ UNCHANGED <<storeVars, now, resp, faults, rangeResp, curRevision,
                   watchPos, queue, pushed, delivered, getAttempts>>

\* ------------------------------------------------------------ WatchKiller
\* The revisions lo..hi, ascending: what a watch with WithPrefix on the empty
\* key delivers, whatever the namespace of the changed key.
WatchedRevsScoped(lo, hi) == PipelineRevs(lo, hi)
RECURSIVE WatchedRevs(_, _)
WatchedRevs(lo, hi) ==
    IF lo > hi THEN <<>> ELSE <<lo>> \o WatchedRevs(lo + 1, hi)

\* Body of the event loop: unmarshal event.Kv.Value (the watch is opened
\* without WithPrevKV and a DELETE change carries no value), log the error,
\* then log pipeline.Id under the type of the change.
OnKillerEvent(event, rev) ==
    LET u == Unmarshal(event.value)
    IN [type |-> event.type, Id |-> u.pipeline.Id, err |-> u.err,
        rev |-> rev, key |-> event.key]

\* The PushEvent calls of the event loop: both branches of the switch only log.
KillerPushesKill(event, rev) ==
    IF event.type = "PUT" /\ event.key.ns = "killer"
    THEN <<Push(KILL, Unmarshal(event.value).pipeline, "killer", rev, event.key, FALSE)>>
    ELSE <<>>
KillerPushes(event, rev) == <<>>

RECURSIVE KillerLoop(_, _)
KillerLoop(revs, i) ==
    IF i > Len(revs) THEN <<>>
    ELSE <<OnKillerEvent(EventAt(revs[i]), revs[i])>> \o KillerLoop(revs, i + 1)

RECURSIVE KillerPushLoop(_, _)
KillerPushLoop(revs, i) ==
    IF i > Len(revs) THEN <<>>
    ELSE KillerPushes(EventAt(revs[i]), revs[i]) \o KillerPushLoop(revs, i + 1)

\* The snapshot read fails: continue, the loop issues the read again.
WatchKillerGetAbort ==
    /\ kpc = "init"
    /\ kFails < MaxFails
    /\ kFails' = kFails + 1
    /\ kpc' = "panicked"
    /\ UNCHANGED <<kRangeRev, kCurRevision, kWatchPos, kLog, registry>>
    /\ UNCHANGED <<storeVars, now, resp, faults, syncVars, crudVars, stepsVars>>
WatchKillerGetFail ==
    /\ kpc = "init"
    /\ kFails < MaxFails
    /\ kFails' = kFails + 1
    /\ UNCHANGED <<kpc, kRangeRev, kCurRevision, kWatchPos, kLog, registry>>
    /\ UNCHANGED <<storeVars, now, resp, faults, syncVars, crudVars, stepsVars>>

\* The snapshot read succeeds: curRevision = rangeResp.Header.Revision + 1,
\* break; the entries of the read are not looked at.  The watch is opened at
\* curRevision on the empty prefix.
WatchKillerGet ==
    /\ kpc = "init"
    /\ kRangeRev' = Revision
    /\ kCurRevision' = Revision + 1
    /\ kWatchPos' = Revision + 1
    /\ kpc' = "watching"
    /\ UNCHANGED <<kLog, kFails, registry>>
    /\ UNCHANGED <<storeVars, now, resp, faults, syncVars, crudVars, stepsVars>>

\* One watch response: the changes from kWatchPos up to some committed
\* revision, processed in order.  The registry is left as it is: the branches
\* of the switch are TODOs.
WatchKillerBatch ==
    /\ kpc = "watching"
    /\ \E last \in kWatchPos..Revision :
        /\ LET revs == WatchedRevs(kWatchPos, last)
               pushes == KillerPushLoop(revs, 1)
           IN /\ kLog' = kLog \o KillerLoop(revs, 1)
              /\ queue' = queue \o Evs(pushes)
              /\ pushed' = pushed \o Tags(pushes)
        /\ kWatchPos' = last + 1
    /\ UNCHANGED <<kpc, kRangeRev, kCurRevision, kFails, registry>>
    /\ UNCHANGED <<storeVars, now, resp, faults, pc, rangeResp, curRevision,
                   watchPos, delivered, getAttempts, crudVars, stepsVars>>

\* The watch channel is closed: the range loop ends and WatchKiller returns.
WatchKillerClose ==
    /\ kpc = "watching"
    /\ kpc' = "closed"
    /\ UNCHANGED <<kRangeRev, kCurRevision, kWatchPos, kLog, kFails, registry>>
    /\ UNCHANGED <<storeVars, now, resp, faults, syncVars, crudVars, stepsVars>>

\* A client of the store writes a key outside the pipeline and kill namespaces.
ExternalPutOther(value) ==
    /\ Room
    /\ StorePut(OtherKey, value, NoLease)
    /\ UNCHANGED <<now, resp, faults, syncVars, killerVars, crudVars, stepsVars>>

\* The synchronizer and the pipeline namespace it follows, with every kind of
\* value a client can leave there.
Next ==
    \/ \E id \in PipelineIds, nodes \in NodeLists : ClientPut(id, nodes)
    \/ \E id \in PipelineIds, value \in MalformedValues : ExternalPut(id, value)
    \/ \E id \in PipelineIds : ClientDelete(id)
    \/ WatchPipelinesGetFail
    \/ WatchPipelinesGet
    \/ WatchPipelinesSnapshot
    \/ WatchPipelinesBatch
    \/ WatchPipelinesClose

Spec == Init /\ [][Next]_vars

\* The synchronizer and a store whose revisions are shared by the pipeline
\* namespace and the kill markers PostKiller writes.
NextRev ==
    \/ \E id \in PipelineIds, nodes \in NodeLists : ClientPut(id, nodes)
    \/ \E id \in PipelineIds : ClientDelete(id)
    \/ \E id \in PipelineIds : PostKiller(id)
    \/ WatchPipelinesGetFail
    \/ WatchPipelinesGet
    \/ WatchPipelinesSnapshot
    \/ WatchPipelinesBatch
    \/ WatchPipelinesClose

SpecRev == Init /\ [][NextRev]_vars

\* The kill-request emitter, the leases of the store and the clock.
NextKill ==
    \/ \E id \in PipelineIds, nodes \in NodeLists : ClientPut(id, nodes)
    \/ \E id \in PipelineIds : PostKiller(id)
    \/ \E id \in PipelineIds : DeleteBy(id)
    \/ \E id \in PipelineIds : LeaseExpire(id)
    \/ Tick

SpecKill == Init /\ [][NextKill]_vars

\* The kill-signal watcher over a store written by the controller, by the
\* leases of the kill markers and by other clients.
NextWatchKiller ==
    \/ \E id \in PipelineIds : ClientPut(id, <<"n2", "n1">>)
    \/ \E id \in PipelineIds : ClientDelete(id)
    \/ ExternalPutOther(BadSyntax)
    \/ \E id \in PipelineIds : PostKiller(id)
    \/ WatchKillerGetFail
    \/ WatchKillerGet
    \/ WatchKillerBatch
    \/ WatchKillerClose

SpecWatchKiller == Init /\ [][NextWatchKiller]_vars

\* --------------------------------------------------------------- PutSteps
\* The relation list of a pipeline as the query loads it: ascending by step.
\* A relation is known by its task id; db maps task id to persisted Step.
TaskIds(db) == 1..Len(db)
IsArranged(db) == {db[t] : t \in TaskIds(db)} = 1..Len(db)
Loaded(db) ==
    [k \in 1..Len(db) |-> [TaskId |-> CHOOSE t \in TaskIds(db) : db[t] = k, Step |-> k]]

\* The indices each of the three loops updates (index runs over 0..count).
ToFirst(origin, current, count) ==
    IF current = 0 /\ origin > 0
    THEN {index \in 0..count : index < origin}
    ELSE {}
MoveDownShort(origin, current, count) ==
    IF current > origin
    THEN {index \in 0..count : index > origin /\ index < current}
    ELSE {}
MoveDown(origin, current, count) ==
    IF current > origin
    THEN {index \in 0..count : index > origin /\ index <= current}
    ELSE {}
MoveUp(origin, current, count) ==
    IF current # 0 /\ current < origin
    THEN {index \in 0..count : index >= current /\ index < origin}
    ELSE {}

\* One loop: its indices in ascending order, each with the change of Step.
RECURSIVE LoopUpdates(_, _, _, _)
LoopUpdates(indices, delta, index, count) ==
    IF index > count THEN <<>>
    ELSE (IF index \in indices THEN <<[index |-> index, set |-> FALSE, val |-> delta]>> ELSE <<>>)
         \o LoopUpdates(indices, delta, index + 1, count)

\* Every write of relations[index].Step the handler makes, in program order:
\* the three loops, then the moved relation.
Updates(origin, current, count) ==
    LoopUpdates(ToFirst(origin, current, count), 1, 0, count)
    \o LoopUpdates(MoveDown(origin, current, count), -1, 0, count)
    \o LoopUpdates(MoveUp(origin, current, count), 1, 0, count)
    \o <<[index |-> origin, set |-> TRUE, val |-> current + 1]>>

\* Run the writes from the k-th on.  An index outside the list panics; the
\* failAt-th Update() fails after the Step was changed in memory, and the
\* handler returns the error.
RECURSIVE RunUpdates(_, _, _, _)
RunUpdates(st, updates, k, failAt) ==
    IF k > Len(updates) THEN st
    ELSE LET u == updates[k]
         IN IF u.index < 0 \/ u.index >= Len(st.mem)
            THEN [st EXCEPT !.out = "panic"]
            ELSE LET step == IF u.set THEN u.val ELSE st.mem[u.index + 1].Step + u.val
                     mem == [st.mem EXCEPT ![u.index + 1].Step = step]
                 IN IF k = failAt
                    THEN [st EXCEPT !.mem = mem, !.out = "error"]
                    ELSE RunUpdates([mem |-> mem,
                                     db |-> [st.db EXCEPT ![mem[u.index + 1].TaskId] = step],
                                     out |-> ""],
                                    updates, k + 1, failAt)

\* sort.Slice by Step: any ordering of the list that ascends by Step (the
\* sort is not stable).
Sorted(mem) ==
    LET elems == {mem[k] : k \in 1..Len(mem)}
        Below(x) == Cardinality({y \in elems : y.Step < x.Step})
    IN IF \A x, y \in elems : x # y => x.Step # y.Step
       THEN {[k \in 1..Len(mem) |-> CHOOSE x \in elems : Below(x) = k - 1]}
       ELSE {s \in [1..Len(mem) -> elems] :
                /\ \A a, b \in 1..Len(mem) : a < b => s[a].Step <= s[b].Step
                /\ \A a, b \in 1..Len(mem) : a # b => s[a].TaskId # s[b].TaskId}

\* Controller.PutSteps on a pipeline whose relations carry the Steps 1..n.
PutSteps(origin, current, failAt) ==
    /\ stepsResp \in {"", "success"}
    /\ IsArranged(dbSteps)
    /\ LET loaded == Loaded(dbSteps)
           count == Len(loaded)
           updates == Updates(origin, current, count)
           st == RunUpdates([mem |-> loaded, db |-> dbSteps, out |-> ""], updates, 1, failAt)
       IN /\ failAt <= Len(updates) + 1
          /\ params' = [Origin |-> origin, Current |-> current]
          /\ dbSteps' = st.db
          /\ IF st.out # ""
             THEN /\ relations' = st.mem
                  /\ stepsResp' = st.out
             ELSE /\ relations' \in Sorted(st.mem)
                  /\ stepsResp' = IF failAt = Len(updates) + 1 THEN "error" ELSE "success"
    /\ UNCHANGED <<storeVars, now, resp, faults, syncVars, killerVars, crudVars>>

\* A pipeline with n task relations, Steps 1..n, and no request yet.
InitSteps ==
    /\ InitControl
    /\ \E n \in 1..MaxTasks :
        /\ dbSteps = [t \in 1..n |-> t]
        /\ relations = Loaded([t \in 1..n |-> t])
    /\ params = NoParams
    /\ stepsResp = ""

\* Origin and Current are only validated as numeric: they range over the
\* positions of the list and the first position past it.
NextSteps ==
    \E origin, current \in 0..MaxTasks, failAt \in 0..(MaxTasks + 2) :
        /\ origin <= Len(dbSteps)
        /\ current <= Len(dbSteps)
        /\ PutSteps(origin, current, failAt)

SpecSteps == InitSteps /\ [][NextSteps]_vars

\* The handlers that write a pipeline to the database and to the store; a
\* request body of Post or PutBy carries no nodes, PostNodes binds two.
NextCrud ==
    \/ \E id \in PipelineIds : Post(id, <<>>)
    \/ \E id \in PipelineIds : PutBy(id, <<>>)
    \/ \E id \in PipelineIds : PostNodes(id, <<"n2", "n1">>)
    \/ \E id \in PipelineIds : DeleteBy(id)

SpecCrud == Init /\ [][NextCrud]_vars

\* Both watchers of the node over the same store, which holds one pipeline
\* and its kill marker.
NextWatchers ==
    \/ ClientPut(PipelineIdSeq[1], <<"n2", "n1">>)
    \/ PostKiller(PipelineIdSeq[1])
    \/ LeaseExpire(PipelineIdSeq[1])
    \/ Tick
    \/ WatchPipelinesGet
    \/ WatchPipelinesSnapshot
    \/ WatchPipelinesBatch
    \/ WatchKillerGet
    \/ WatchKillerBatch

SpecWatchers == Init /\ [][NextWatchers]_vars

\* ================================================================ claims
\* Indices of the pushed events of a phase, and of the events one change caused.
PhaseIdx(phase) == {i \in 1..Len(pushed) : pushed[i].phase = phase}
KeyIdx(phase, key) == {i \in PhaseIdx(phase) : pushed[i].key = key}
RevIdx(r) == {i \in PhaseIdx("stream") : pushed[i].rev = r}
SnapshotDone == pc \in {"watching", "closed"}
Member(local, nodes) == \E i \in 1..Len(nodes) : nodes[i] = local

\* The value of key once every change up to revision r is applied.
RECURSIVE ValueAt(_, _)
ValueAt(key, r) ==
    IF r < 2 THEN NoVal
    ELSE IF EventAt(r).key = key THEN EventAt(r).value
    ELSE ValueAt(key, r - 1)

\* The value of key in the snapshot read.
SnapshotValue(key) ==
    IF \E k \in 1..Len(rangeResp.Kvs) : rangeResp.Kvs[k].Key = key
    THEN (CHOOSE obj \in {rangeResp.Kvs[k] : k \in 1..Len(rangeResp.Kvs)} : obj.Key = key).Value
    ELSE NoVal

\* The value of key after the delivered changes k.. are applied to v.
RECURSIVE Replay(_, _, _)
Replay(key, v, k) ==
    IF k > Len(delivered) THEN v
    ELSE Replay(key, IF EventAt(delivered[k]).key = key THEN EventAt(delivered[k]).value ELSE v, k + 1)

\* C1: once the snapshot phase is over, every pipeline key present in the
\* store at the snapshot's revision has exactly one snapshot-phase event, a PUT
\* carrying the pipeline its value holds, whatever its Nodes list; absent keys
\* have none, and no snapshot-phase event has another type.
C1_BootstrapCompleteness ==
    SnapshotDone =>
        /\ \A id \in PipelineIds :
            LET key == PipelineKey(id)
                v == ValueAt(key, rangeResp.Revision)
                idx == KeyIdx("snapshot", key)
            IN IF v = NoVal THEN idx = {}
               ELSE /\ Cardinality(idx) = 1
                    /\ \A i \in idx :
                        v.kind = "json" => /\ queue[i].Pipeline.Id = v.id
                                            /\ queue[i].Pipeline.Nodes = v.nodes
        /\ \A i \in PhaseIdx("snapshot") : queue[i].Type = PUT

\* C1 witness: a snapshot of two pipelines, one with an empty Nodes list and
\* one that lists the local node, both pushed.
C1_Witness ==
    /\ SnapshotDone
    /\ Len(rangeResp.Kvs) = 2
    /\ \E i \in PhaseIdx("snapshot") :
        /\ ~pushed[i].err
        /\ queue[i].Pipeline.Nodes = <<>>
    /\ \E i \in PhaseIdx("snapshot") :
        /\ ~pushed[i].err
        /\ Member(Local, queue[i].Pipeline.Nodes)

\* C2: the watch is opened at R+1, R the snapshot's revision: the changes the
\* streaming phase has processed are exactly the pipeline changes of revisions
\* R+1 .. (delivery position - 1), each once and none at a revision <= R, and the
\* snapshot with these changes applied is the store's pipeline namespace at that
\* position.
C2_RevisionContinuity ==
    SnapshotDone =>
        /\ curRevision = rangeResp.Revision + 1
        /\ delivered = PipelineRevs(rangeResp.Revision + 1, watchPos - 1)
        /\ \A k \in 1..Len(delivered) : delivered[k] > rangeResp.Revision
        /\ \A k, l \in 1..Len(delivered) : k < l => delivered[k] < delivered[l]
        /\ \A id \in PipelineIds :
            Replay(PipelineKey(id), SnapshotValue(PipelineKey(id)), 1)
                = ValueAt(PipelineKey(id), watchPos - 1)

\* C2 witness: a non-empty snapshot, then a kill marker and a pipeline change
\* committed after it, the watch caught up to the store's revision.
C2_Witness ==
    /\ pc = "watching"
    /\ rangeResp.Kvs # <<>>
    /\ delivered # <<>>
    /\ watchPos = Revision + 1
    /\ \E r \in (rangeResp.Revision + 1)..Revision : ~IsPipelineChange(r)

\* C3: in the streaming phase a put whose Nodes list does not contain the local
\* node pushes no event, and a delete pushes exactly one DEL event carrying the
\* pipeline of the previous value, whatever its Nodes list.
C3_MembershipAsymmetry ==
    \A k \in 1..Len(delivered) :
        LET r == delivered[k]
            event == EventAt(r)
        IN /\ (event.type = "PUT" /\ ~Member(Local, Unmarshal(event.value).pipeline.Nodes))
                => RevIdx(r) = {}
           /\ event.type = "DELETE" =>
                /\ Cardinality(RevIdx(r)) = 1
                /\ \A i \in RevIdx(r) :
                    /\ queue[i].Type = DEL
                    /\ event.prev.kind = "json" => /\ queue[i].Pipeline.Id = event.prev.id
                                                  /\ queue[i].Pipeline.Nodes = event.prev.nodes

\* C3 witness: the watch delivered a put of a pipeline that does not list the
\* local node and then the delete of that pipeline.
C3_Witness ==
    \E k, l \in 1..Len(delivered) :
        /\ k < l
        /\ EventAt(delivered[k]).type = "PUT"
        /\ EventAt(delivered[k]).value.kind = "json"
        /\ ~Member(Local, EventAt(delivered[k]).value.nodes)
        /\ EventAt(delivered[l]).type = "DELETE"
        /\ EventAt(delivered[l]).key = EventAt(delivered[k]).key
        /\ EventAt(delivered[l]).prev = EventAt(delivered[k]).value

\* C4: in the streaming phase a put whose Nodes list contains the local node
\* pushes exactly one PUT event, for every Nodes list.
C4_OnePutPerMemberChange ==
    \A k \in 1..Len(delivered) :
        LET r == delivered[k]
            event == EventAt(r)
        IN (event.type = "PUT" /\ Member(Local, Unmarshal(event.value).pipeline.Nodes))
            => Cardinality(RevIdx(r)) = 1

\* C7: a snapshot entry whose value fails to deserialize pushes no event.
C7_SnapshotSkipsMalformed ==
    SnapshotDone =>
        \A k \in 1..Len(rangeResp.Kvs) :
            Unmarshal(rangeResp.Kvs[k].Value).err
                => KeyIdx("snapshot", rangeResp.Kvs[k].Key) = {}

\* C8: the Pipeline of every pushed event was deserialized without error.
C8_EventsWellFormed ==
    \A i \in 1..Len(pushed) : ~pushed[i].err

\* C9: snapshot-phase events precede every streaming-phase event, and the
\* streaming-phase events are in the revision order of the changes that caused
\* them, all of them changes the watch delivered.
C9_EventOrdering ==
    /\ Len(queue) = Len(pushed)
    /\ \A i, j \in 1..Len(pushed) :
        i < j =>
            /\ pushed[j].phase = "snapshot" => pushed[i].phase = "snapshot"
            /\ (pushed[i].phase = "stream" /\ pushed[j].phase = "stream")
                => pushed[i].rev <= pushed[j].rev
    /\ \A i \in PhaseIdx("stream") :
        /\ pushed[i].rev > rangeResp.Revision
        /\ \E k \in 1..Len(delivered) : delivered[k] = pushed[i].rev

\* C9 witness: a snapshot event followed by the events of two later changes.
C9_Witness ==
    \E i, j, l \in 1..Len(pushed) :
        /\ i < j
        /\ j < l
        /\ pushed[i].phase = "snapshot"
        /\ pushed[j].phase = "stream"
        /\ pushed[l].phase = "stream"
        /\ pushed[j].rev < pushed[l].rev

\* C10: a failed snapshot read ends WatchPipelines: nothing was pushed, no
\* watch was opened, and the read is issued once only.
C10_BootstrapFailureFatal ==
    /\ getAttempts <= 1
    /\ pc = "init" => getAttempts = 0
    /\ pc = "panicked" =>
        /\ queue = <<>>
        /\ pushed = <<>>
        /\ delivered = <<>>
        /\ watchPos = 0
        /\ curRevision = 0

\* C10 witness: the read failed while the store held a pipeline.
C10_Witness ==
    /\ pc = "panicked"
    /\ \E id \in PipelineIds : kv[PipelineKey(id)] # NoVal

\* C5: PostKiller answers success only when both the lease grant and the
\* write of the marker succeeded; when one of them failed it does not.
C5_KillFailureReported ==
    resp.op = "PostKiller" => (resp.status = "success" <=> faults = {})

\* C6: a present kill marker is bound to a lease of TTL 2 granted at its write
\* and at most 2 time units old, so it is absent once more than 2 have passed;
\* a PostKiller whose grant and write succeeded leaves the marker present; the
\* marker goes away only when its lease has run out, and its lease changes only
\* with a new write of the marker.
C6_MarkerState ==
    \A id \in PipelineIds :
        IF kv[KillerKey(id)] = NoVal
        THEN lease[id] = NoLease
        ELSE /\ lease[id].ttl = 2
             /\ lease[id].granted <= now
             /\ now <= lease[id].granted + 2
C6_MarkerStep ==
    \A id \in PipelineIds :
        LET key == KillerKey(id)
            written == /\ Len(history') = Len(history) + 1
                       /\ history'[Len(history')].type = "PUT"
                       /\ history'[Len(history')].key = key
        IN /\ (written /\ faults' = {} /\ resp' = [op |-> "PostKiller", status |-> "success"])
                => /\ kv'[key] # NoVal
                   /\ lease'[id] = [granted |-> now, ttl |-> 2]
           /\ (kv[key] # NoVal /\ kv'[key] = NoVal)
                => now >= lease[id].granted + 2
           /\ (kv[key] # NoVal /\ lease'[id] # lease[id])
                => (written \/ kv'[key] = NoVal)
\* C6: the marker state holds always and every step is a marker step.
C6_LeaseExpiry == [](C6_MarkerState) /\ [][C6_MarkerStep]_vars

\* C6 witness: a marker was written, written again one time unit later, and
\* has gone two time units after the second write.
C6_Witness ==
    \E id \in PipelineIds :
        /\ Len(history) = 3
        /\ history[1].type = "PUT" /\ history[1].key = KillerKey(id)
        /\ history[2].type = "PUT" /\ history[2].key = KillerKey(id)
        /\ history[3].type = "DELETE" /\ history[3].key = KillerKey(id)
        /\ now = 3
        /\ kv[KillerKey(id)] = NoVal

\* C11: WatchKiller opens no watch and processes nothing before a snapshot
\* read has succeeded; while it has not, the read can be issued again; a failed
\* read leaves it in the retry loop; the step that leaves the loop is a
\* successful read at the store's revision R and opens the watch at R + 1,
\* which is never revised afterwards.
C11_NotBeforeRead ==
    kpc = "init" =>
        /\ kWatchPos = 0
        /\ kCurRevision = 0
        /\ kLog = <<>>
        /\ ENABLED WatchKillerGet
C11_Step ==
    /\ kFails' # kFails => (kpc = "init" /\ kpc' = "init")
    /\ (kpc = "init" /\ kpc' # "init")
         => /\ kpc' = "watching"
            /\ kFails' = kFails
            /\ kRangeRev' = Revision
            /\ kCurRevision' = Revision + 1
            /\ kWatchPos' = Revision + 1
    /\ kpc # "init" => (kpc' # "init" /\ kRangeRev' = kRangeRev /\ kCurRevision' = kCurRevision)
C11_BootstrapRetry == [](C11_NotBeforeRead) /\ [][C11_Step]_vars

\* C11 witness: two reads failed while the store moved on, the third succeeded
\* and the watch has delivered a change.
C11_Witness ==
    /\ kFails >= 2
    /\ kpc = "watching"
    /\ kRangeRev >= 2
    /\ kLog # <<>>

\* C12: once the watch channel of WatchPipelines is closed it stays closed,
\* and no step, whatever it commits to the store, pushes an event, delivers a
\* change or moves the watch position.
C12_Step ==
    pc = "closed" =>
        /\ pc' = "closed"
        /\ queue' = queue
        /\ pushed' = pushed
        /\ delivered' = delivered
        /\ watchPos' = watchPos
C12_ClosureHalts == [][C12_Step]_vars

\* C12 witness: the channel is closed and the store holds a pipeline change
\* at a revision the watch had not reached.
C12_Witness ==
    /\ pc = "closed"
    /\ \E r \in watchPos..Revision : IsPipelineChange(r)

\* C13: every event in the scheduler's queue has Type PUT or DEL.
C13_NoKillEvent == \A i \in 1..Len(queue) : queue[i].Type \in {PUT, DEL}

\* C13 witness: a kill marker was written and has expired, WatchKiller has
\* processed both changes, and the queue holds an event.
C13_Witness ==
    /\ Len(queue) > 0
    /\ \E i, j \in 1..Len(kLog) :
        /\ i < j
        /\ kLog[i].key.ns = "killer" /\ kLog[i].type = "PUT"
        /\ kLog[j].key = kLog[i].key /\ kLog[j].type = "DELETE"

\* The processed changes that are the latest one WatchKiller processed for
\* their key.
LatestIdx == {i \in 1..Len(kLog) : \A j \in (i + 1)..Len(kLog) : kLog[j].key # kLog[i].key}

\* C14: the registry holds exactly the identifiers whose most recent
\* processed change was a put.
C14_RegistryTracksPuts ==
    registry = {kLog[i].Id : i \in {j \in LatestIdx : kLog[j].type = "PUT"}}

\* C15: once the watch is open, the changes WatchKiller has processed are
\* exactly the changes at the revisions R+1 .. kWatchPos-1, one entry each, in
\* revision order, whatever their key; none has a revision at or below R.
C15_UnscopedContinuous ==
    kpc # "init" =>
        /\ kWatchPos <= Revision + 1
        /\ Len(kLog) = kWatchPos - 1 - kRangeRev
        /\ \A i \in 1..Len(kLog) :
            /\ kLog[i].rev = kRangeRev + i
            /\ kLog[i].key = EventAt(kLog[i].rev).key
            /\ kLog[i].type = EventAt(kLog[i].rev).type

\* C15 witness: a change was committed before the bootstrap read, a kill
\* marker and a pipeline were written after it, and both were processed.
C15_Witness ==
    /\ kRangeRev >= 2
    /\ kWatchPos = Revision + 1
    /\ \E i, j \in 1..Len(kLog) : kLog[i].key.ns = "killer" /\ kLog[j].key.ns = "pipeline"

\* C16: a watcher that completed its bootstrap while the marker of a pipeline
\* was present, and has processed every change committed so far, has processed
\* a put of that marker.
C16_LateWatcherObserves ==
    \A id \in PipelineIds :
        (/\ kpc # "init"
         /\ ValueAt(KillerKey(id), kRangeRev) # NoVal
         /\ kWatchPos = Revision + 1)
            => \E i \in 1..Len(kLog) : kLog[i].key = KillerKey(id) /\ kLog[i].type = "PUT"

\* C17: the identifier WatchKiller acts on for a delete equals the identifier
\* it acted on for the preceding put of the same key.
C17_DeleteIdentifiedByPrev ==
    \A i, j \in 1..Len(kLog) :
        (/\ i < j
         /\ kLog[i].key = kLog[j].key
         /\ kLog[i].type = "PUT"
         /\ kLog[j].type = "DELETE"
         /\ \A k \in (i + 1)..(j - 1) : kLog[k].key # kLog[i].key)
            => kLog[j].Id = kLog[i].Id

\* The two copies of a pipeline agree: present in both or absent from both,
\* and when present the Nodes of the store value are the bound node ids.
CrudOps == {"Post", "PutBy", "PostNodes", "DeleteBy"}
InStore(id) == kv[PipelineKey(id)] # NoVal
Agree(id) ==
    /\ InStore(id) <=> id \in dbRows
    /\ InStore(id) => Unmarshal(kv[PipelineKey(id)]).pipeline.Nodes = dbPivot[id]

\* C18: a CRUD call that returned success has left the two copies of its
\* pipeline in agreement: present in both with the same Nodes, or, after a
\* delete, absent from both.
C18_SuccessAgrees ==
    (resp.op \in CrudOps /\ resp.status = "success") =>
        /\ Agree(lastId)
        /\ resp.op = "DeleteBy" => ~InStore(lastId) /\ lastId \notin dbRows

\* The list without its k-th element, as task ids.
Without(list, k) ==
    [i \in 1..(Len(list) - 1) |-> IF i < k THEN list[i].TaskId ELSE list[i + 1].TaskId]
InRange(p, n) == p.Origin \in 0..(n - 1) /\ p.Current \in 0..(n - 1)

\* C19: a PutSteps call with Origin and Current in 0..n-1 on relations with
\* Steps 1..n never indexes outside the list, and when it succeeds the Steps
\* are again 1..n in list order, in memory and in the database, the relation
\* that was at Origin is at Current with Step Current+1, and the other
\* relations keep their relative order.
C19_Step ==
    LET n == Len(relations)
    IN (params' # params \/ relations' # relations \/ stepsResp' # stepsResp)
         /\ InRange(params', n)
       => /\ stepsResp' # "panic"
          /\ stepsResp' = "success" =>
                /\ Len(relations') = n
                /\ \A k \in 1..n : relations'[k].Step = k
                /\ \A k \in 1..n : dbSteps'[relations'[k].TaskId] = k
                /\ relations'[params'.Current + 1].TaskId = relations[params'.Origin + 1].TaskId
                /\ Without(relations', params'.Current + 1) = Without(relations, params'.Origin + 1)
====
